---- MODULE Spec2Model ----
(***************************************************************************)
(* A model of app.py (nishlocaldev/dentaldb): a password-gated Streamlit   *)
(* script that downloads data.db once, inspects the working table, builds  *)
(* a WHERE clause from the sidebar widgets, pages through the result with   *)
(* LIMIT/OFFSET and offers CSV exports.                                    *)
(*                                                                         *)
(* Text values are tuples of one-character strings (<<"9","4">> is '94'),  *)
(* so that LIKE, strip() and the byte order of ORDER BY can be computed.   *)
(***************************************************************************)
EXTENDS Integers, Sequences, FiniteSets, TLC

(***************************************************************************)
(* Bounds of the model.                                                    *)
(***************************************************************************)
\* rows of the working table
NRows == 12
\* typed page sizes MinPageSize .. MinPageSize + MaxSizeDelta are explored
MaxSizeDelta == 1
\* browser sessions
NSessions == 2
\* chunks of the database download (iter_content)
TotalChunks == 2

(***************************************************************************)
(* Program constants.                                                      *)
(***************************************************************************)
MinPageSize == 10
MaxPageSize == 200
DefaultPageSize == 50

NULL == <<"NULL">>
ANY == <<"(","a","n","y",")">>
EMPTY == << >>

(***************************************************************************)
(* Text helpers.                                                           *)
(***************************************************************************)
Letters == <<"a","b","c","d","e","f","g","h","i","j","k","l","m","n","o","p","q","r","s","t">>

\* ord(c): the ASCII code of a character the data or the inputs use
OrdOf(c) ==
  CASE c = " " -> 32
    [] c = "%" -> 37
    [] c = "4" -> 52
    [] c = "9" -> 57
    [] c = "A" -> 65
    [] c = "B" -> 66
    [] c = "I" -> 73
    [] c = "_" -> 95
    [] OTHER -> 96 + (CHOOSE i \in 1..Len(Letters) : Letters[i] = c)

Chars == {" ", "4", "9", "A", "B", "I", "%", "_"} \cup {Letters[i] : i \in 1..Len(Letters)}

OrdTable == [c \in Chars |-> OrdOf(c)]

Ord(c) == OrdTable[c]

\* ASCII lower-casing, as SQLite's LIKE applies it
Lower(c) ==
  CASE c = "A" -> "a"
    [] c = "B" -> "b"
    [] c = "I" -> "i"
    [] OTHER -> c

LowerStr(s) == [i \in 1..Len(s) |-> Lower(s[i])]

IsSpace(c) == c = " "

RECURSIVE LStrip(_)
LStrip(s) == IF s # << >> /\ IsSpace(Head(s)) THEN LStrip(Tail(s)) ELSE s

RECURSIVE RStrip(_)
RStrip(s) ==
  IF s # << >> /\ IsSpace(s[Len(s)]) THEN RStrip(SubSeq(s, 1, Len(s) - 1)) ELSE s

\* str.strip()
Strip(s) == RStrip(LStrip(s))

RECURSIVE LikeMatch(_, _)
\* SQLite's LIKE on text s and pattern p: % is any run, _ any character, ASCII case folded
LikeMatch(s, p) ==
  IF p = << >> THEN s = << >>
  ELSE IF Head(p) = "%" THEN \E k \in 0..Len(s) : LikeMatch(SubSeq(s, k + 1, Len(s)), Tail(p))
  ELSE IF s = << >> THEN FALSE
  ELSE (Head(p) = "_" \/ Lower(Head(s)) = Lower(Head(p))) /\ LikeMatch(Tail(s), Tail(p))

\* v LIKE p as a WHERE term: NULL LIKE p is NULL, which filters the row out
Like(v, p) == v # NULL /\ LikeMatch(v, p)

\* BINARY collation, NULL first
RECURSIVE LexLess(_, _)
LexLess(a, b) ==
  IF a = << >> THEN b # << >>
  ELSE IF b = << >> THEN FALSE
  ELSE IF Ord(Head(a)) # Ord(Head(b)) THEN Ord(Head(a)) < Ord(Head(b))
  ELSE LexLess(Tail(a), Tail(b))

KeyLess(a, b) ==
  IF a = NULL THEN b # NULL
  ELSE IF b = NULL THEN FALSE
  ELSE LexLess(a, b)

Max(a, b) == IF a >= b THEN a ELSE b
Min(a, b) == IF a <= b THEN a ELSE b

RECURSIVE SeqToSet(_)
SeqToSet(s) == IF s = << >> THEN {} ELSE {Head(s)} \cup SeqToSet(Tail(s))

(***************************************************************************)
(* The database: the working table's optional columns and its rows.        *)
(***************************************************************************)
NONE == "None"

OptionalColumns ==
  {"name_std", "name", "state_std", "state", "postal_code_std", "postal_code",
   "phone", "full_address", "city", "country", "location_link", "site"}

RowIds == 1..NRows

\* The rows of the table, by rowid.  Rows MinPageSize and MinPageSize + 1 have the
\* same name_std; rows 1 and 2 have no name_std, and row 1 no name either.
Row(i) ==
  [c \in OptionalColumns |->
     CASE c = "name_std" ->
            IF i <= 2 THEN NULL
            ELSE IF i = MinPageSize + 1 THEN <<Letters[MinPageSize]>> ELSE <<Letters[i]>>
       [] c = "name" -> IF i <= 1 THEN NULL ELSE <<Letters[i]>>
       [] c = "city" ->
            IF i <= MinPageSize THEN <<"A">>
            ELSE IF i = MinPageSize + 1 THEN <<"B">> ELSE NULL
       [] c = "state_std" -> IF i = NRows THEN NULL ELSE <<"I", "A">>
       [] c = "state" -> <<"i", "a">>
       [] c = "postal_code_std" -> IF i < NRows THEN <<"9", "4">> ELSE <<"4", "9">>
       [] c = "postal_code" -> <<" ", "9", "4">>
       [] c = "phone" -> <<"9">>
       [] c = "full_address" -> IF i = MinPageSize + 1 THEN NULL ELSE <<"4", "b">>
       [] c = "country" -> <<"A">>
       [] c = "location_link" -> NULL
       [] OTHER -> IF i = 1 THEN <<"h", "b">> ELSE NULL]

Table == [i \in RowIds |-> Row(i)]

(***************************************************************************)
(* Schema inspection (app.py 141-146, 157, 179).                           *)
(***************************************************************************)
name_col(existing) ==
  IF "name_std" \in existing THEN "name_std"
  ELSE IF "name" \in existing THEN "name" ELSE NONE

state_field(existing) ==
  IF "state_std" \in existing THEN "state_std"
  ELSE IF "state" \in existing THEN "state" ELSE NONE

zip_field(existing) ==
  IF "postal_code_std" \in existing THEN "postal_code_std"
  ELSE IF "postal_code" \in existing THEN "postal_code" ELSE NONE

\* value_list: the distinct non-null values of col, [] when the column is absent
value_list(existing, col) ==
  IF col \notin existing THEN {} ELSE {Table[i][col] : i \in RowIds} \ {NULL}

city_list(existing) == IF "city" \in existing THEN value_list(existing, "city") ELSE {}

state_list(existing) ==
  IF state_field(existing) # NONE THEN value_list(existing, state_field(existing)) ELSE {}

\* kw_fields without the test that the column exists
kw_fields_unchecked(existing) ==
  SelectSeq(<<name_col(existing), "full_address", "site">>, LAMBDA c : c # NONE)

kw_fields(existing) ==
  SelectSeq(<<name_col(existing), "full_address", "site">>,
            LAMBDA c : c # NONE /\ c \in existing)

(***************************************************************************)
(* Build WHERE (app.py 165-183).  A term is [kind, cols]: "like_group" is  *)
(* the parenthesised OR of "c LIKE ?" over cols, "eq" is "c = ?", "like"   *)
(* is "c LIKE ?".  params are bound positionally, one per "?".             *)
(***************************************************************************)
Term(kind, cols) == [kind |-> kind, cols |-> cols]

KeywordTerm(q, existing) ==
  IF q # EMPTY /\ kw_fields(existing) # << >>
  THEN [where |-> <<Term("like_group", kw_fields(existing))>>,
        params |-> [i \in 1..Len(kw_fields(existing)) |-> <<"%">> \o q \o <<"%">>]]
  ELSE [where |-> << >>, params |-> << >>]

CityTerm(city, existing) ==
  IF "city" \in existing /\ city # ANY
  THEN [where |-> <<Term("eq", <<"city">>)>>, params |-> <<city>>]
  ELSE [where |-> << >>, params |-> << >>]

StateTerm(state, existing) ==
  IF state_field(existing) # NONE /\ state # ANY
  THEN [where |-> <<Term("eq", <<state_field(existing)>>)>>, params |-> <<state>>]
  ELSE [where |-> << >>, params |-> << >>]

ZipTerm(zip_like, existing) ==
  IF zip_field(existing) # NONE /\ Strip(zip_like) # EMPTY
  THEN [where |-> <<Term("like", <<zip_field(existing)>>)>>,
        params |-> <<Strip(zip_like) \o <<"%">> >>]
  ELSE [where |-> << >>, params |-> << >>]

BuildWhere(w, existing) ==
  LET k == KeywordTerm(w.q, existing)
      c == CityTerm(w.city, existing)
      s == StateTerm(w.state, existing)
      z == ZipTerm(w.zip_like, existing)
  IN [where |-> k.where \o c.where \o s.where \o z.where,
      params |-> k.params \o c.params \o s.params \o z.params]

(***************************************************************************)
(* Visible columns and ordering (app.py 225-241).                          *)
(***************************************************************************)
Col(col, label) == [col |-> col, label |-> label]

select_schema(existing) ==
  << Col(IF name_col(existing) # NONE
         THEN (IF "name_std" \in existing THEN "name_std" ELSE "name") ELSE NONE, "Name"),
     Col("phone", "Phone"),
     Col("full_address", "Address"),
     Col("city", "City"),
     IF state_field(existing) # NONE THEN Col(state_field(existing), "State") ELSE Col(NONE, NONE),
     IF zip_field(existing) # NONE THEN Col(zip_field(existing), "ZIP") ELSE Col(NONE, NONE),
     Col("country", "Country"),
     Col("location_link", "Map"),
     Col("site", "Website") >>

select_list(existing) ==
  SelectSeq(select_schema(existing), LAMBDA e : e.col # NONE /\ e.col \in existing)

\* the identifiers of the ORDER BY expression; two of them are COALESCE(a, b)
order_expr(existing) ==
  IF "name_std" \in existing \/ "name" \in existing
  THEN <<"name_std", "name">>
  ELSE <<select_list(existing)[1].col>>

(***************************************************************************)
(* What SQLite does with the statements the script issues.                 *)
(***************************************************************************)
\* identifiers are matched without regard to case; the labels of select_schema
AliasKey(label) ==
  CASE label = "Name" -> "name"
    [] label = "Phone" -> "phone"
    [] label = "Address" -> "address"
    [] label = "City" -> "city"
    [] label = "State" -> "state"
    [] label = "ZIP" -> "zip"
    [] label = "Country" -> "country"
    [] label = "Map" -> "map"
    [] label = "Website" -> "website"
    [] OTHER -> NONE

\* The column an identifier of a statement denotes: a column of the table, else the
\* result column whose alias it matches, else none ("no such column").
ResolveIdent(ident, existing, sel) ==
  IF ident \in existing THEN ident
  ELSE IF \E k \in 1..Len(sel) : AliasKey(sel[k].label) = ident
       THEN sel[CHOOSE k \in 1..Len(sel) : AliasKey(sel[k].label) = ident].col
       ELSE NONE

RECURSIVE TermCols(_)
TermCols(where) ==
  IF where = << >> THEN {} ELSE SeqToSet(Head(where).cols) \cup TermCols(Tail(where))

\* a statement, as far as name resolution goes: the identifiers it uses and its result columns
Stmt(name, refs, sel) == [name |-> name, refs |-> refs, sel |-> sel]

Unresolved(st, existing) == {r \in st.refs : ResolveIdent(r, existing, st.sel) = NONE}

CountStmt(where) == Stmt("count_all", TermCols(where), << >>)

DistinctStmt(col) == Stmt("distinct_count", {col}, << >>)

PageStmt(name, existing, where) ==
  Stmt(name,
       {select_list(existing)[k].col : k \in 1..Len(select_list(existing))}
         \cup TermCols(where) \cup SeqToSet(order_expr(existing)),
       select_list(existing))

\* one term of the WHERE clause on one row, with the parameters bound to its "?"s
TermHolds(t, ps, row) ==
  IF t.kind = "eq" THEN row[t.cols[1]] # NULL /\ row[t.cols[1]] = ps[1]
  ELSE \E k \in 1..Len(t.cols) : Like(row[t.cols[k]], ps[k])

RECURSIVE WhereHolds(_, _, _)
WhereHolds(where, params, row) ==
  IF where = << >> THEN TRUE
  ELSE LET n == Len(Head(where).cols)
       IN /\ TermHolds(Head(where), SubSeq(params, 1, n), row)
          /\ WhereHolds(Tail(where), SubSeq(params, n + 1, Len(params)), row)

\* the rowids the WHERE clause keeps
Matching(where, params) == {i \in RowIds : WhereHolds(where, params, Table[i])}

\* count_all: the number of rows of the table that where_sql keeps
count_all(where, params) == Cardinality(Matching(where, params))

\* distinct_count: 0 when the column is absent
distinct_count(existing, col) ==
  IF col \notin existing THEN 0 ELSE Cardinality({Table[i][col] : i \in RowIds} \ {NULL})

\* the value of the ORDER BY expression on row i: COALESCE over its identifiers
OrderKey(i, existing) ==
  LET ids == order_expr(existing)
      val(k) == Table[i][ResolveIdent(ids[k], existing, select_list(existing))]
  IN IF Len(ids) = 1 THEN val(1)
     ELSE IF val(1) # NULL THEN val(1) ELSE val(2)

\* f as a table of its values (TLC otherwise re-evaluates f's body at every application)
Tabulate(f) == f @@ << >>

\* S in ascending order of key; rows with equal keys by rowid, ascending or descending
SortedBy(S, key, tie) ==
  LET before(a, b) ==
        \/ KeyLess(key[a], key[b])
        \/ ~KeyLess(key[b], key[a]) /\ (IF tie = "rowid" THEN a < b ELSE a > b)
      pos == Tabulate([r \in S |-> 1 + Cardinality({t \in S : before(t, r)})])
  IN Tabulate([k \in 1..Cardinality(S) |-> CHOOSE r \in S : pos[r] = k])

\* Orders ORDER BY may return the rows S in.  SQLite leaves the order of rows with equal
\* keys undefined; two of the orders it may produce are modelled, rowid order among equal
\* keys and its reverse (PRAGMA reverse_unordered_selects).
SortOrders(S, existing) ==
  LET key == Tabulate([i \in S |-> OrderKey(i, existing)])
  IN {SortedBy(S, key, tie) : tie \in {"rowid", "reverse"}}

\* LIMIT limit OFFSET offset applied to an ordered result
LimitOffset(rows, limit, offset) ==
  SubSeq(rows, offset + 1, Min(Len(rows), offset + limit))

(***************************************************************************)
(* One run of the script from "Pick the working table" to the footer       *)
(* (app.py 130-278), as a function of the database, the widget values w,   *)
(* the session's page on entry (0: no "page" key yet), the button clicked  *)
(* in this run, the query that fails for an outside reason (fault), and    *)
(* the orders SQLite returns the page query's and the export query's rows  *)
(* in before LIMIT/OFFSET.  The result records what the run did.           *)
(***************************************************************************)
Faults == {"none", "list_tables", "get_columns", "count_all", "distinct_count",
           "page_query", "full_query"}

NoRun ==
  [outcome |-> "none", failed |-> "none", messages |-> {}, stmts |-> {},
   page |-> 0, paged |-> FALSE, queried |-> FALSE, exported |-> FALSE,
   where |-> << >>, params |-> << >>, page_size |-> 0, clicked |-> "none",
   total_rows |-> 0, filtered_rows |-> 0, n_cities |-> 0, n_zips |-> 0,
   max_page |-> 0, page_before |-> 0, page_clamped |-> 0, offset |-> 0,
   page_shown |-> 0, start_row |-> 0, end_row |-> 0,
   df |-> << >>, file_page |-> 0, full_df |-> << >>]

\* "Pick the working table"
WorkingTable(tables) ==
  IF "records_norm" \in tables THEN "records_norm"
  ELSE IF "records" \in tables THEN "records" ELSE NONE

\* max_page = max(1, (filtered_rows + page_size - 1) // page_size)
MaxPageOf(filtered_rows, page_size) ==
  Max(1, (filtered_rows + page_size - 1) \div page_size)

\* Clamp without the upper clamp of line 208
ClampLowOnly(page, max_page) == IF page < 1 THEN 1 ELSE page

\* the two clamps of lines 208-209, applied to the session's page
Clamp(page, max_page) ==
  LET p1 == IF page > max_page THEN max_page ELSE page
  IN IF p1 < 1 THEN 1 ELSE p1

\* OffsetOf with the page counted from 0
OffsetOfZeroBased(page_clamped, page_size) == page_clamped * page_size

\* offset = (st.session_state.page - 1) * page_size, computed from the clamped page
OffsetOf(page_clamped, page_size) == (page_clamped - 1) * page_size

\* the Prev and Next buttons, lines 213-218
AfterButtons(page, max_page, clicked) ==
  IF clicked = "prev" /\ page > 1 THEN page - 1
  ELSE IF clicked = "next" /\ page < max_page THEN page + 1
  ELSE page

\* a statement raises when it is the one the fault hits or when it names a column
\* SQLite cannot resolve
Raises(st, existing, fault) == fault = st.name \/ Unresolved(st, existing) # {}

\* the statements of the KPI block that reach SQLite, in the order they are issued
KpiStmts(existing, where) ==
  <<CountStmt(<< >>), CountStmt(where)>>
    \o (IF "city" \in existing THEN <<DistinctStmt("city")>> ELSE << >>)
    \o (IF zip_field(existing) # NONE THEN <<DistinctStmt(zip_field(existing))>> ELSE << >>)

\* the statements of a sequence up to and including the first one that raises
IssuedUntilRaise(sts, existing, fault) ==
  LET bad == {k \in 1..Len(sts) : Raises(sts[k], existing, fault)}
      last == IF bad = {} THEN Len(sts) ELSE CHOOSE k \in bad : \A j \in bad : k <= j
  IN {sts[k] : k \in 1..last}

\* What the database returns to one run: the four KPI numbers, and the rows of the
\* page query and of the export query in the order ORDER BY gives them (before LIMIT).
DbAnswer(total, filtered, cities, zips, pageRows, fullRows) ==
  [total_rows |-> total, filtered_rows |-> filtered, n_cities |-> cities, n_zips |-> zips,
   page_rows |-> pageRows, full_rows |-> fullRows]

\* the answers the database can give to the statements of a run with widget values w
DbAnswers(existing, w) ==
  LET bw == BuildWhere(w, existing)
      hits == Matching(bw.where, bw.params)
      ok == select_list(existing) # << >>
              /\ Unresolved(PageStmt("page_query", existing, bw.where), existing) = {}
      orders == IF ok THEN SortOrders(hits, existing) ELSE {<< >>}
      total == count_all(<< >>, << >>)
      cities == distinct_count(existing, "city")
      zips == distinct_count(existing, IF "postal_code_std" \in existing
                                       THEN "postal_code_std" ELSE "postal_code")
  IN {DbAnswer(total, Cardinality(hits), cities, zips, pr, fr) : pr \in orders, fr \in orders}

RunScript(existing, tables, w, page0, clicked, fault, db) ==
  LET r0 == [NoRun EXCEPT !.page = page0, !.page_before = page0, !.clicked = clicked,
                          !.page_size = w.page_size]
      bw == BuildWhere(w, existing)
      kpiSeq == KpiStmts(existing, bw.where)
      kpis == IssuedUntilRaise(kpiSeq, existing, fault)
      filtered == db.filtered_rows
      max_page == MaxPageOf(filtered, w.page_size)
      page1 == Clamp(IF page0 = 0 THEN 1 ELSE page0, max_page)
      offset == OffsetOf(page1, w.page_size)
      page2 == AfterButtons(page1, max_page, clicked)
      r5 == [r0 EXCEPT !.where = bw.where, !.params = bw.params,
                       !.total_rows = db.total_rows,
                       !.filtered_rows = filtered,
                       !.n_cities = db.n_cities,
                       !.n_zips = db.n_zips,
                       !.stmts = kpis,
                       !.paged = TRUE, !.max_page = max_page, !.page_clamped = page1,
                       !.offset = offset, !.page = page2, !.page_shown = page2,
                       !.start_row = IF filtered = 0 THEN 0 ELSE offset + 1,
                       !.end_row = Min(filtered, offset + w.page_size)]
      pst == PageStmt("page_query", existing, bw.where)
      fst == PageStmt("full_query", existing, bw.where)
      df == LimitOffset(db.page_rows, w.page_size, offset)
      r9 == [r5 EXCEPT !.stmts = kpis \cup {pst}, !.queried = TRUE, !.df = df]
  IN
  IF fault = "list_tables"
    THEN [r0 EXCEPT !.outcome = "exception", !.failed = "list_tables"]
  ELSE IF WorkingTable(tables) = NONE
    THEN [r0 EXCEPT !.outcome = "stopped", !.messages = {"no_table"}]
  ELSE IF fault = "get_columns"
    THEN [r0 EXCEPT !.outcome = "exception", !.failed = "get_columns"]
  ELSE IF \E st \in kpis : Raises(st, existing, fault)
    THEN [r0 EXCEPT !.outcome = "exception", !.where = bw.where, !.params = bw.params,
                    !.failed = (CHOOSE st \in kpis : Raises(st, existing, fault)).name,
                    !.stmts = kpis]
  ELSE IF select_list(existing) = << >>
    THEN [r5 EXCEPT !.outcome = "stopped", !.messages = {"no_columns"}]
  ELSE IF Raises(pst, existing, fault)
    THEN [r5 EXCEPT !.outcome = "exception", !.failed = "page_query",
                    !.stmts = kpis \cup {pst}]
  ELSE IF df = << >>
    THEN [r9 EXCEPT !.outcome = "done", !.messages = {"no_results"}]
  ELSE IF Raises(fst, existing, fault)
    THEN [r9 EXCEPT !.outcome = "exception", !.failed = "full_query",
                    !.file_page = page2, !.stmts = kpis \cup {pst, fst}]
  ELSE [r9 EXCEPT !.outcome = "done", !.file_page = page2, !.exported = TRUE,
                  !.full_df = db.full_rows, !.stmts = kpis \cup {pst, fst}]

(***************************************************************************)
(* State.                                                                  *)
(***************************************************************************)
VARIABLES
  existing,        \* columns of the working table (get_columns)
  tables,          \* tables of data.db (list_tables)
  widgets,         \* values of the sidebar widgets
  page,            \* st.session_state.page of the browsing session, 0: key absent
  run,             \* what the browsing session's last run did
  fetched,         \* page number -> rows fetched for it since the filters last changed
  app_password,    \* APP_PASSWORD
  db_url,          \* DB_URL is set
  password_ok,     \* per session: st.session_state["password_ok"], "unset" when absent
  gave_secret,     \* per session: the configured secret has been submitted
  pc,              \* per session: where its current run stands
  db_file,         \* data.db: whether it exists and its chunks
  wrote,           \* per session: chunks its download has written
  download_failed  \* per session: a download of the session has failed

queryVars == <<existing, tables, widgets, page, run, fetched>>
bootVars == <<app_password, db_url, password_ok, gave_secret, pc, db_file, wrote, download_failed>>
vars == <<existing, tables, widgets, page, run, fetched,
          app_password, db_url, password_ok, gave_secret, pc, db_file, wrote, download_failed>>

Sessions == 1..NSessions

(***************************************************************************)
(* The sidebar (app.py 155-163) and the values a user gives its widgets.   *)
(***************************************************************************)
KeywordInputs == {EMPTY, <<"B">>}
ZipInputs == {EMPTY, <<" ">>, <<" ", "4">>}
PageSizes ==
  {n \in MinPageSize..MaxPageSize : n <= MinPageSize + MaxSizeDelta} \cup {DefaultPageSize}

DefaultWidgets ==
  [q |-> EMPTY, city |-> ANY, state |-> ANY, zip_like |-> EMPTY, page_size |-> DefaultPageSize]

CityOptions == {ANY} \cup city_list(existing)
StateOptions == {ANY} \cup state_list(existing)

\* the sidebar was drawn by the last run, so its widgets can be used
SidebarShown ==
  /\ run.outcome # "none"
  /\ run.failed \notin {"list_tables", "get_columns"}
  /\ "no_table" \notin run.messages

\* the page a run fetched: its offset over its page size, counted from 1
FetchedPage(r) == (r.offset \div r.page_size) + 1

\* A user interaction: the widgets take the values w, the script runs from the top with
\* the given button clicked, and the session keeps the page the run leaves.
Interact(w, clicked, faults, track) ==
  /\ LET answers == DbAnswers(existing, w)
     IN \E fault \in faults :
          \* a run that fails before the page query does not depend on the row order
          \E db \in (IF fault \in {"none", "full_query"}
                     THEN answers ELSE {CHOOSE a \in answers : TRUE}) :
            run' = RunScript(existing, tables, w, page, clicked, fault, db)
  /\ widgets' = w
  /\ page' = run'.page
  /\ fetched' =
       IF ~track THEN fetched
       ELSE LET base == IF w = widgets THEN fetched ELSE << >>
            IN IF run'.queried
               THEN [p \in (DOMAIN base) \cup {FetchedPage(run')} |->
                       IF p = FetchedPage(run') THEN run'.df ELSE base[p]]
               ELSE base
  /\ UNCHANGED <<existing, tables>>

(***************************************************************************)
(* The password gate (app.py 9-30).                                        *)
(***************************************************************************)
Passwords == {"", "secret", "guess"}

\* hashlib.sha256(p.encode()).hexdigest(), its first eight digits
Sha256Hex(p) ==
  CASE p = "" -> "e3b0c442"
    [] p = "secret" -> "2bb80d53"
    [] OTHER -> "f1abe1b0"

\* password_entered: what the callback stores in st.session_state["password_ok"]
password_entered(pw, secret) == IF Sha256Hex(pw) = Sha256Hex(secret) THEN "ok" ELSE "wrong"

\* check_password that lets a session through once the flag is set at all
check_password_any_flag(ok) == ok # "unset"

\* check_password: absent or False shows the input and returns False
check_password(ok) == ok = "ok"

\* a run starts at the gate: past it when check_password() holds, else st.stop()
AfterGate(ok) == IF check_password(ok) THEN "after_gate" ELSE "idle"

\* the password input is on the page: a run of the session ended at the gate
PasswordInputShown(s) == pc[s] = "idle" /\ ~check_password(password_ok[s])

(***************************************************************************)
(* data.db as the download writes it (app.py 76-98).                       *)
(***************************************************************************)
NoFile == [exists |-> FALSE, chunks |-> << >>]

\* f.write(chunk) at the writer's own position n + 1; a position beyond the end of a
\* file another open() has truncated leaves a hole of zero bytes before it
WriteAt(chunks, n) ==
  [k \in 1..Max(Len(chunks), n + 1) |->
     IF k = n + 1 THEN "data" ELSE IF k <= Len(chunks) THEN chunks[k] ELSE "hole"]

\* data.db holds the whole database
FileComplete(f) ==
  f.exists /\ Len(f.chunks) = TotalChunks /\ \A k \in 1..TotalChunks : f.chunks[k] = "data"

CompleteFile == [exists |-> TRUE, chunks |-> [k \in 1..TotalChunks |-> "data"]]

\* os.path.exists(DB_PATH) decides whether the download block runs
NeedsDownload(f) == ~f.exists

\* the except branch: st.error and st.stop(); the file is left as it is
DownloadFails(s) ==
  /\ download_failed' = [download_failed EXCEPT ![s] = TRUE]
  /\ pc' = [pc EXCEPT ![s] = "idle"]

(***************************************************************************)
(* Steps of a session's run up to "Pick the working table".                *)
(***************************************************************************)
\* first load of the page, or a rerun
Load(s) ==
  /\ pc[s] \in {"new", "idle"}
  /\ pc' = [pc EXCEPT ![s] = AfterGate(password_ok[s])]
  /\ UNCHANGED <<app_password, db_url, password_ok, gave_secret, db_file, wrote, download_failed>>
  /\ UNCHANGED queryVars

\* the user submits pw: the callback runs, then the script reruns
SubmitPassword(s, pw) ==
  /\ PasswordInputShown(s)
  /\ password_ok' = [password_ok EXCEPT ![s] = password_entered(pw, app_password)]
  /\ gave_secret' = [gave_secret EXCEPT ![s] = @ \/ pw = app_password]
  /\ pc' = [pc EXCEPT ![s] = AfterGate(password_ok'[s])]
  /\ UNCHANGED <<app_password, db_url, db_file, wrote, download_failed>>
  /\ UNCHANGED queryVars

\* if not os.path.exists(DB_PATH): ... if not DB_URL: st.error; st.stop()
CheckExists(s) ==
  /\ pc[s] = "after_gate"
  /\ pc' = [pc EXCEPT ![s] =
              IF ~NeedsDownload(db_file) THEN "pick_table"
              ELSE IF ~db_url THEN "idle" ELSE "get"]
  /\ UNCHANGED <<app_password, db_url, password_ok, gave_secret, db_file, wrote, download_failed>>
  /\ UNCHANGED queryVars

\* requests.get and raise_for_status succeed
HttpGet(s) ==
  /\ pc[s] = "get"
  /\ pc' = [pc EXCEPT ![s] = "open"]
  /\ UNCHANGED <<app_password, db_url, password_ok, gave_secret, db_file, wrote, download_failed>>
  /\ UNCHANGED queryVars

\* requests.get or raise_for_status raises: nothing has been written
HttpGetFails(s) ==
  /\ pc[s] = "get"
  /\ DownloadFails(s)
  /\ UNCHANGED <<app_password, db_url, password_ok, gave_secret, db_file, wrote>>
  /\ UNCHANGED queryVars

\* open(DB_PATH, "wb") creates the file, or truncates it
OpenFile(s) ==
  /\ pc[s] = "open"
  /\ db_file' = [exists |-> TRUE, chunks |-> << >>]
  /\ wrote' = [wrote EXCEPT ![s] = 0]
  /\ pc' = [pc EXCEPT ![s] = "writing"]
  /\ UNCHANGED <<app_password, db_url, password_ok, gave_secret, download_failed>>
  /\ UNCHANGED queryVars

\* one turn of the iter_content loop
WriteChunk(s) ==
  /\ pc[s] = "writing"
  /\ wrote[s] < TotalChunks
  /\ db_file' = [db_file EXCEPT !.chunks = WriteAt(@, wrote[s])]
  /\ wrote' = [wrote EXCEPT ![s] = @ + 1]
  /\ UNCHANGED <<app_password, db_url, password_ok, gave_secret, pc, download_failed>>
  /\ UNCHANGED queryVars

\* the stream breaks before the last chunk
StreamFails(s) ==
  /\ pc[s] = "writing"
  /\ wrote[s] < TotalChunks
  /\ DownloadFails(s)
  /\ UNCHANGED <<app_password, db_url, password_ok, gave_secret, db_file, wrote>>
  /\ UNCHANGED queryVars

\* the stream ends: the file is closed, st.success
FinishDownload(s) ==
  /\ pc[s] = "writing"
  /\ wrote[s] = TotalChunks
  /\ pc' = [pc EXCEPT ![s] = "pick_table"]
  /\ UNCHANGED <<app_password, db_url, password_ok, gave_secret, db_file, wrote, download_failed>>
  /\ UNCHANGED queryVars

\* sqlite3.connect(DB_PATH), list_tables and the rest of the run
PickTable(s) ==
  /\ pc[s] = "pick_table"
  /\ pc' = [pc EXCEPT ![s] = "idle"]
  /\ UNCHANGED <<app_password, db_url, password_ok, gave_secret, db_file, wrote, download_failed>>
  /\ UNCHANGED queryVars

(***************************************************************************)
(* Interactions of the browsing session, past the gate, data.db in place.  *)
(***************************************************************************)
\* first load, "Rerun", or a click on a download button
Rerun ==
  /\ Interact(widgets, "none", Faults, FALSE)
  /\ UNCHANGED bootVars

ChangeKeyword ==
  /\ SidebarShown
  /\ \E v \in KeywordInputs \ {widgets.q} :
       Interact([widgets EXCEPT !.q = v], "none", Faults, FALSE)
  /\ UNCHANGED bootVars

ChangeCity ==
  /\ SidebarShown
  /\ \E v \in CityOptions \ {widgets.city} :
       Interact([widgets EXCEPT !.city = v], "none", Faults, FALSE)
  /\ UNCHANGED bootVars

ChangePageSize ==
  /\ SidebarShown
  /\ \E v \in PageSizes \ {widgets.page_size} :
       Interact([widgets EXCEPT !.page_size = v], "none", Faults, FALSE)
  /\ UNCHANGED bootVars

ClickPrev ==
  /\ run.paged
  /\ Interact(widgets, "prev", Faults, FALSE)
  /\ UNCHANGED bootVars

ClickNext ==
  /\ run.paged
  /\ Interact(widgets, "next", Faults, FALSE)
  /\ UNCHANGED bootVars

(***************************************************************************)
(* Paging through one filtered set, no query failing, with the rows of     *)
(* each page kept as they were fetched.                                    *)
(***************************************************************************)
BrowseRerun ==
  /\ Interact(widgets, "none", {"none"}, TRUE)
  /\ UNCHANGED bootVars

BrowseCity ==
  /\ SidebarShown
  /\ \E v \in CityOptions \ {widgets.city} :
       Interact([widgets EXCEPT !.city = v], "none", {"none"}, TRUE)
  /\ UNCHANGED bootVars

BrowsePageSize ==
  /\ SidebarShown
  /\ \E v \in PageSizes \ {widgets.page_size} :
       Interact([widgets EXCEPT !.page_size = v], "none", {"none"}, TRUE)
  /\ UNCHANGED bootVars

BrowsePrev ==
  /\ run.paged
  /\ Interact(widgets, "prev", {"none"}, TRUE)
  /\ UNCHANGED bootVars

BrowseNext ==
  /\ run.paged
  /\ Interact(widgets, "next", {"none"}, TRUE)
  /\ UNCHANGED bootVars

(***************************************************************************)
(* The script as a function of the schema and the Filter Set: the first    *)
(* run of a session whose widgets hold the Filter Set w.                   *)
(***************************************************************************)
FilterSets ==
  [q : KeywordInputs, city : CityOptions, state : StateOptions, zip_like : ZipInputs,
   page_size : {DefaultPageSize}]

ApplyFilters ==
  /\ run.outcome = "none"
  /\ \E w \in FilterSets : Interact(w, "none", {"none"}, FALSE)
  /\ UNCHANGED bootVars

(***************************************************************************)
(* Specifications.                                                         *)
(***************************************************************************)
RawColumns ==
  {"name", "state", "postal_code", "phone", "full_address", "city", "country",
   "location_link", "site"}

\* a normalized database, a raw one, and one without a working table
Databases ==
  { <<OptionalColumns, {"records_norm", "records"}>>,
    <<RawColumns, {"records"}>>,
    <<OptionalColumns, {"sqlite_sequence"}>> }

\* the browsing session is session 1, past the gate, with data.db downloaded
BootDone ==
  /\ app_password = "secret"
  /\ db_url = TRUE
  /\ password_ok = [s \in Sessions |-> IF s = 1 THEN "ok" ELSE "unset"]
  /\ gave_secret = [s \in Sessions |-> s = 1]
  /\ pc = [s \in Sessions |-> IF s = 1 THEN "idle" ELSE "new"]
  /\ db_file = CompleteFile
  /\ wrote = [s \in Sessions |-> IF s = 1 THEN TotalChunks ELSE 0]
  /\ download_failed = [s \in Sessions |-> FALSE]

QueryStart ==
  /\ widgets = DefaultWidgets
  /\ page = 0
  /\ run = NoRun
  /\ fetched = << >>

Init ==
  /\ \E d \in Databases : existing = d[1] /\ tables = d[2]
  /\ QueryStart
  /\ BootDone

Next ==
  \/ Rerun
  \/ ChangeKeyword
  \/ ChangeCity
  \/ ChangePageSize
  \/ ClickPrev
  \/ ClickNext

Spec == Init /\ [][Next]_vars

\* paging, on the normalized database
InitPages ==
  /\ existing = OptionalColumns
  /\ tables = {"records_norm", "records"}
  /\ QueryStart
  /\ BootDone

NextPages ==
  \/ BrowseRerun
  \/ BrowseCity
  \/ BrowsePageSize
  \/ BrowsePrev
  \/ BrowseNext

SpecPages == InitPages /\ [][NextPages]_vars

\* every schema of the working table
InitSchema ==
  /\ existing \in SUBSET OptionalColumns
  /\ tables = {"records"}
  /\ QueryStart
  /\ BootDone

NextSchema == ApplyFilters

SpecSchema == InitSchema /\ [][NextSchema]_vars

\* sessions from their first load to "Pick the working table", data.db absent at first
InitBoot ==
  /\ app_password \in {"", "secret"}
  /\ db_url \in BOOLEAN
  /\ password_ok = [s \in Sessions |-> "unset"]
  /\ gave_secret = [s \in Sessions |-> FALSE]
  /\ pc = [s \in Sessions |-> "new"]
  /\ db_file = NoFile
  /\ wrote = [s \in Sessions |-> 0]
  /\ download_failed = [s \in Sessions |-> FALSE]
  /\ existing = OptionalColumns
  /\ tables = {"records_norm", "records"}
  /\ QueryStart

NextBoot ==
  \E s \in Sessions :
    \/ Load(s)
    \/ \E pw \in Passwords : SubmitPassword(s, pw)
    \/ CheckExists(s)
    \/ HttpGet(s)
    \/ HttpGetFails(s)
    \/ OpenFile(s)
    \/ WriteChunk(s)
    \/ StreamFails(s)
    \/ FinishDownload(s)
    \/ PickTable(s)

SpecBoot == InitBoot /\ [][NextBoot]_vars

(***************************************************************************)
(* Properties.                                                             *)
(***************************************************************************)
\* ceil(a / b), by its definition: the least n with n * b >= a
CeilDiv(a, b) == CHOOSE n \in 0..a : n * b >= a /\ \A m \in 0..a : m * b >= a => n <= m

RECURSIVE ConcatPages(_, _)
\* the rows of pages 1..n of f, one after the other
ConcatPages(f, n) == IF n = 0 THEN << >> ELSE ConcatPages(f, n - 1) \o f[n]

\* the positions of a run past the gate
PastGate == {"after_gate", "get", "open", "writing", "pick_table"}

\* C1: in every run whose page query returned, the query's offset is
\* (page - 1) * page_size for the page the run shows in the pager, and the page-export
\* file of the run is named after that same page.
C1_OffsetIsOfShownPage ==
  run.queried =>
    /\ run.offset = (run.page_shown - 1) * run.page_size
    /\ run.df # << >> => run.file_page = run.page_shown

\* C2: in every run that reaches the pager, max_page is max(1, ceil(filtered_rows /
\* page_size)) for a page size in [10, 200]; the page the offset is computed from, the
\* page in use when the page query is issued and the session's page at the end of the run
\* all lie in 1..max_page; Next at max_page and Prev at page 1 leave the page unchanged;
\* a page that entered the run above max_page is clamped to max_page.
C2_PageWithinBounds ==
  run.paged =>
    LET mp == Max(1, CeilDiv(run.filtered_rows, run.page_size))
    IN /\ run.page_size \in MinPageSize..MaxPageSize
       /\ run.max_page = mp
       /\ run.page_clamped \in 1..mp
       /\ run.page_shown \in 1..mp
       /\ page = run.page_shown
       /\ (run.clicked = "next" /\ run.page_clamped = mp) => run.page_shown = run.page_clamped
       /\ (run.clicked = "prev" /\ run.page_clamped = 1) => run.page_shown = run.page_clamped
       /\ run.page_before > mp => run.page_clamped = mp

\* Next clicked on the last of several pages: the page stays
C2_Witness ==
  /\ run.paged
  /\ run.clicked = "next"
  /\ run.max_page >= 2
  /\ run.page_before = run.max_page
  /\ page = run.max_page

\* C3: for every schema with at least one selectable column, no statement of the run
\* names a column SQLite cannot resolve in that schema, and no statement raises.
C3_StatementsResolve ==
  (run.outcome # "none" /\ select_list(existing) # << >>) =>
    /\ \A st \in run.stmts : Unresolved(st, existing) = {}
    /\ run.outcome # "exception"

C5_QueryFailureHandled ==
  run.failed # "none" =>
    /\ run.outcome # "exception"
    /\ run.messages # {}
    /\ page = run.page

\* C6: a session whose download has failed never reaches the table selection again.
C6_FailedDownloadIsFatal ==
  \A s \in Sessions : download_failed[s] => pc[s] # "pick_table"

\* C7: a session is past the gate only with password_ok true, password_ok is true only
\* after the configured secret was submitted, and password_ok, once true, stays true.
C7_GateGuards ==
  /\ [](\A s \in Sessions :
          /\ pc[s] \in PastGate => password_ok[s] = "ok"
          /\ wrote[s] > 0 => gave_secret[s]
          /\ password_ok[s] = "ok" => gave_secret[s])
  /\ [][\A s \in Sessions : password_ok[s] = "ok" => password_ok'[s] = "ok"]_vars

\* one session reads the database past the gate while another, which has only
\* submitted a wrong password, sits at the gate
C7_Witness ==
  \E s, t \in Sessions :
    /\ pc[s] = "pick_table" /\ password_ok[s] = "ok"
    /\ pc[t] = "idle" /\ password_ok[t] = "wrong" /\ ~gave_secret[t]

\* C8: the WHERE clause is the AND of exactly: the keyword OR-group over the existing
\* ones of {resolved name column, full_address, site} iff the keyword is non-empty and
\* one of them exists; city equality iff the city column exists and a city is selected;
\* state equality on the resolved state column iff one exists and a state is selected;
\* the ZIP prefix match on the resolved postal-code column iff one exists and the input
\* is not blank; each term binds one parameter per "?", and nothing else is bound.
\* Stated of every run that got as far as building the clause.
C8_WhereClause ==
  SidebarShown =>
    LET nameC == IF "name_std" \in existing THEN {"name_std"}
                 ELSE IF "name" \in existing THEN {"name"} ELSE {}
        kwCols == (nameC \cup {"full_address", "site"}) \cap existing
        stateC == IF "state_std" \in existing THEN {"state_std"}
                  ELSE IF "state" \in existing THEN {"state"} ELSE {}
        zipC == IF "postal_code_std" \in existing THEN {"postal_code_std"}
                ELSE IF "postal_code" \in existing THEN {"postal_code"} ELSE {}
        blank(z) == \A k \in 1..Len(z) : z[k] = " "
        kwOn == widgets.q # EMPTY /\ kwCols # {}
        cityOn == "city" \in existing /\ widgets.city # ANY
        stateOn == stateC # {} /\ widgets.state # ANY
        zipOn == zipC # {} /\ ~blank(widgets.zip_like)
        terms == {run.where[k] : k \in 1..Len(run.where)}
        N(b) == IF b THEN 1 ELSE 0
    IN /\ Len(run.where) = N(kwOn) + N(cityOn) + N(stateOn) + N(zipOn)
       /\ kwOn <=> \E t \in terms : t.kind = "like_group" /\ SeqToSet(t.cols) = kwCols
                                      /\ Len(t.cols) = Cardinality(kwCols)
       /\ cityOn <=> Term("eq", <<"city">>) \in terms
       /\ stateOn <=> \E c \in stateC : Term("eq", <<c>>) \in terms
       /\ zipOn <=> \E c \in zipC : Term("like", <<c>>) \in terms
       /\ Len(run.params) = N(kwOn) * Cardinality(kwCols) + N(cityOn) + N(stateOn) + N(zipOn)
       /\ TermCols(run.where) \subseteq existing

\* a keyword and a ZIP prefix are given, the table has a site column but no name,
\* address or postal-code column: the clause is the keyword group over site alone
C8_Witness ==
  /\ run.paged
  /\ widgets.q # EMPTY
  /\ widgets.zip_like = <<" ", "4">>
  /\ "site" \in existing
  /\ existing \cap {"name_std", "name", "full_address", "postal_code_std", "postal_code"} = {}
  /\ run.where = <<Term("like_group", <<"site">>)>>
  /\ Len(run.params) = 1

\* C9: in every run whose page query returned, the fetched page is empty exactly when
\* filtered_rows = 0, "No results" is shown exactly then, and with filtered_rows > 0 the
\* offset of the page query is smaller than filtered_rows.
C9_EmptyPageOnlyForNoRows ==
  run.queried =>
    /\ run.df = << >> <=> run.filtered_rows = 0
    /\ "no_results" \in run.messages <=> run.filtered_rows = 0
    /\ run.filtered_rows > 0 => run.offset < run.filtered_rows

\* a filter change shrank the result below the session's page, and the run still
\* fetched rows
C9_Witness ==
  /\ run.queried
  /\ run.page_before > run.max_page
  /\ run.filtered_rows > 0
  /\ run.df # << >>

\* C10: a session whose own download has not failed reaches the table selection only
\* when data.db holds the whole database.
C10_ReadsOnlyCompleteFile ==
  \A s \in Sessions :
    (pc[s] = "pick_table" /\ ~download_failed[s]) => FileComplete(db_file)

====
